---- MODULE Spec2Model ----
(***************************************************************************)
(* git-pr-rust: the live pull-request dashboard of src/cli.rs.             *)
(*                                                                         *)
(* The model follows App::run_loop (the tick thread), the refresh tasks it *)
(* spawns with tokio::spawn, the PrInfo record both share behind one       *)
(* std::sync::Mutex, PrInfo::get / PrInfo::update, the check predicates of *)
(* prinfo/models.rs and the progress-bar registry of App::pb.              *)
(*                                                                         *)
(* Time is the wall clock (SystemTime) in units of 1/ClockHz second.       *)
(* ANSI colour is kept as a tag inside the text it colours.  The position  *)
(* counter of a bar (pb.inc) only advances the spinner phase and is not    *)
(* displayed by any template of the program; it is not tracked.            *)
(***************************************************************************)
EXTENDS Integers, Sequences, FiniteSets, TLC

VARIABLES
    pc,         \* tick thread: statement of App::run_loop it is about to execute
    exit,       \* outcome of the run: "running", "success" or the panic that ended it
    record,     \* the PrInfo inside Arc<Mutex<PrInfo>> (NoRecord before PrInfo::get)
    holder,     \* owner of the PrInfo mutex: "none", "main" or "task"
    poisoned,   \* the mutex is poisoned (a thread panicked while holding its guard)
    pending,    \* refresh tasks spawned and not yet run (waiting for a worker / the lock)
    bars,       \* App.progress_bars: key -> ProgressBar
    order,      \* App.mp: the keys in on-screen order
    clock,      \* SystemTime::now()
    settled,    \* environment: the PR host reports only all-terminal records from now on
    fetchedAt,  \* history: clock at the latest invocation of the external fetch (-1: none)
    finalFrames \* history: frames rendered after the loop was left

vars == <<pc, exit, record, holder, poisoned, pending, bars, order, clock,
          settled, fetchedAt, finalFrames>>

-----------------------------------------------------------------------------
(* Bounds of the model *)

MaxSecs == 31
MaxPending == 2
MaxChecks == 2
ClockHz == 2

MaxClock == MaxSecs * ClockHz

(* Program constants *)

MinRefetchSecs == 15

-----------------------------------------------------------------------------
(* prinfo/models.rs: the check enums *)

CheckStatusState == {"COMPLETED", "IN_PROGRESS", "PENDING", "QUEUED", "REQUESTED", "WAITING"}

CheckConclusionState ==
    {"ACTION_REQUIRED", "CANCELLED", "FAILURE", "NEUTRAL", "SKIPPED", "STALE",
     "STARTUP_FAILURE", "SUCCESS", "TIMED_OUT"}

StatusContextState == {"ERROR", "EXPECTED", "FAILURE", "PENDING", "SUCCESS"}

None == "None"

CheckRun(name, status, conclusion) ==
    [typename |-> "CheckRun", name |-> name, status |-> status,
     conclusion |-> conclusion, state |-> None]

StatusContext(context, state) ==
    [typename |-> "StatusContext", name |-> context, status |-> None,
     conclusion |-> None, state |-> state]

StatusCheck(name) ==
    {CheckRun(name, s, c) : s \in CheckStatusState, c \in CheckConclusionState \cup {None}}
    \cup {StatusContext(name, s) : s \in StatusContextState}

CheckStatusState_is_complete(status) ==
    CASE status = "COMPLETED" -> TRUE
      [] OTHER -> FALSE

\* variant: everything but PENDING is final
StatusContextState_is_complete_not_pending(state) == state # "PENDING"

StatusContextState_is_complete(state) ==
    CASE state = "SUCCESS" -> TRUE
      [] state = "FAILURE" -> TRUE
      [] state = "ERROR" -> TRUE
      [] OTHER -> FALSE

StatusCheck_name(sc) == sc.name

StatusCheck_is_complete(sc) ==
    CASE sc.typename = "CheckRun" -> CheckStatusState_is_complete(sc.status)
      [] sc.typename = "StatusContext" -> StatusContextState_is_complete(sc.state)

Panic == "panic"

\* variant: a successful StatusContext is labelled like a successful CheckRun
short_status_str_success_ok(sc) ==
    IF ~StatusCheck_is_complete(sc) THEN " .. "
    ELSE CASE sc.typename = "CheckRun" ->
                (CASE sc.conclusion = None -> " .. "
                   [] sc.conclusion \in {"CANCELLED", "NEUTRAL"} -> "Pass"
                   [] sc.conclusion = "SKIPPED" -> "Skip"
                   [] sc.conclusion = "SUCCESS" -> " OK "
                   [] sc.conclusion \in {"ACTION_REQUIRED", "FAILURE", "STALE",
                                         "STARTUP_FAILURE", "TIMED_OUT"} -> "Fail"
                   [] OTHER -> Panic)
           [] sc.typename = "StatusContext" ->
                (CASE sc.state = "ERROR" -> "Fail"
                   [] sc.state = "FAILURE" -> "Fail"
                   [] sc.state = "SUCCESS" -> " OK "
                   [] OTHER -> Panic)

\* variant: the early return for a check that is not complete is missing
short_status_str_unguarded(sc) ==
    CASE sc.typename = "CheckRun" ->
            (CASE sc.conclusion = None -> " .. "
               [] sc.conclusion \in {"CANCELLED", "NEUTRAL"} -> "Pass"
               [] sc.conclusion = "SKIPPED" -> "Skip"
               [] sc.conclusion = "SUCCESS" -> " OK "
               [] sc.conclusion \in {"ACTION_REQUIRED", "FAILURE", "STALE",
                                     "STARTUP_FAILURE", "TIMED_OUT"} -> "Fail"
               [] OTHER -> Panic)
      [] sc.typename = "StatusContext" ->
            (CASE sc.state = "ERROR" -> "Fail"
               [] sc.state = "FAILURE" -> "Fail"
               [] sc.state = "SUCCESS" -> "Pass"
               [] OTHER -> Panic)

short_status_str(sc) ==
    IF ~StatusCheck_is_complete(sc) THEN " .. "
    ELSE CASE sc.typename = "CheckRun" ->
                (CASE sc.conclusion = None -> " .. "
                   [] sc.conclusion = "ACTION_REQUIRED" -> "Fail"
                   [] sc.conclusion = "CANCELLED" -> "Pass"
                   [] sc.conclusion = "FAILURE" -> "Fail"
                   [] sc.conclusion = "NEUTRAL" -> "Pass"
                   [] sc.conclusion = "SKIPPED" -> "Skip"
                   [] sc.conclusion = "STALE" -> "Fail"
                   [] sc.conclusion = "STARTUP_FAILURE" -> "Fail"
                   [] sc.conclusion = "SUCCESS" -> " OK "
                   [] sc.conclusion = "TIMED_OUT" -> "Fail"
                   [] OTHER -> Panic)
           [] sc.typename = "StatusContext" ->
                (CASE sc.state = "ERROR" -> "Fail"
                   [] sc.state = "FAILURE" -> "Fail"
                   [] sc.state = "SUCCESS" -> "Pass"
                   [] OTHER -> Panic)

Paint(text, colour) == "<" \o colour \o ">" \o text \o "</>"

short_status_string_with_color(sc) ==
    LET status == short_status_str(sc)
    IN CASE status = " OK " -> Paint(status, "green")
         [] status = "Pass" -> Paint(status, "white")
         [] status = "Fail" -> Paint(status, "red")
         [] status = "Skip" -> Paint(status, "yellow")
         [] OTHER -> Paint(status, "white")

-----------------------------------------------------------------------------
(* prinfo/prinfo.rs: the record *)

NoRecord == [present |-> FALSE]

PrInfo(checks, commits, files, body, createdAt) ==
    [present |-> TRUE, number |-> 7, title |-> "fix", url |-> "http://pr/7",
     state |-> "OPEN", author |-> "ann", createdAt |-> "d1", updatedAt |-> "d2",
     body |-> body, files |-> files, commits |-> commits,
     statusCheckRollup |-> checks, createdAt__ |-> createdAt]

RECURSIVE IterAll(_, _)
IterAll(checks, i) ==
    IF i > Len(checks) THEN TRUE
    ELSE IF ~StatusCheck_is_complete(checks[i]) THEN FALSE
    ELSE IterAll(checks, i + 1)

\* variant: an empty check list is not complete
PrInfo_is_complete_nonempty(r) ==
    Len(r.statusCheckRollup) > 0 /\ IterAll(r.statusCheckRollup, 1)

PrInfo_is_complete(r) == IterAll(r.statusCheckRollup, 1)

as_secs(duration) == duration \div ClockHz

\* variant: strictly more than the interval
update_is_due_strict(now, createdAt) == as_secs(now - createdAt) > MinRefetchSecs

\* variant: seconds rounded up instead of truncated
update_is_due_rounded(now, createdAt) ==
    (now - createdAt + ClockHz - 1) \div ClockHz >= MinRefetchSecs

update_is_due(now, createdAt) == as_secs(now - createdAt) >= MinRefetchSecs

PrInfo_sha(r) ==
    IF Len(r.commits) = 0 THEN Panic ELSE r.commits[Len(r.commits)].oid

-----------------------------------------------------------------------------
(* cli.rs: Pb, the row descriptor *)

Digit(n) == CASE n = 0 -> "0" [] n = 1 -> "1" [] n = 2 -> "2" [] n = 3 -> "3"
              [] n = 4 -> "4" [] n = 5 -> "5" [] n = 6 -> "6" [] n = 7 -> "7"
              [] n = 8 -> "8" [] n = 9 -> "9"

RECURSIVE FormatInt(_)
FormatInt(n) == IF n < 10 THEN Digit(n) ELSE FormatInt(n \div 10) \o Digit(n % 10)

RECURSIVE Repeat(_, _)
Repeat(s, n) == IF n = 0 THEN "" ELSE s \o Repeat(s, n - 1)

Pb_new(key) ==
    [key |-> key, prefix |-> "", message |-> "", template |-> "",
     tick_chars |-> "", indent |-> 0]

with_prefix(pb, prefix) == [pb EXCEPT !.prefix = prefix]

with_message(pb, message) == [pb EXCEPT !.message = message]

with_template(pb, template) == [pb EXCEPT !.template = template]

with_indent(pb, indent) == [pb EXCEPT !.indent = indent]

as_header(pb) ==
    with_template(pb, Paint("====>", "magenta") \o " {prefix:.white.bold}{msg:.white.bold}")

as_section(pb) ==
    with_template(pb, Paint("---->", "magenta") \o " {prefix:.white.bold}{msg:.white.bold}")

new_with_pkey(key) == with_prefix(Pb_new(key), key)

new_with_pkey_and_message(key, message) ==
    with_message(with_prefix(Pb_new(key), key), message)

new_header(key) == as_header(new_with_pkey(key))

new_section(key) == as_section(new_with_pkey(key))

-----------------------------------------------------------------------------
(* cli.rs: App::get_progress_bars, the rows of one frame *)

RECURSIVE MaxPathLen(_, _, _)
MaxPathLen(files, i, best) ==
    IF i > Len(files) THEN best
    ELSE MaxPathLen(files, i + 1,
                    IF Len(files[i].path) >= best THEN Len(files[i].path) ELSE best)

FileRow(f, longest_file) ==
    with_template(
        new_with_pkey_and_message(
            f.path,
            FormatInt(f.additions) \o Paint("+", "green")
                \o FormatInt(f.deletions) \o Paint("-", "red")),
        "  " \o Paint("-->", "magenta") \o " {prefix:" \o FormatInt(longest_file)
            \o "} " \o Paint("|", "magenta") \o " {msg}")

\* variant: the spinner placeholder is put on every check row
CheckRow_always_spinner(sc) ==
    with_template(
        new_with_pkey_and_message(
            StatusCheck_name(sc),
            "[" \o short_status_string_with_color(sc) \o "]"),
        "{msg}" \o " {spinner} " \o "{prefix:.bold.dim}")

CheckRow(sc) ==
    LET spinner == IF StatusCheck_is_complete(sc) THEN " " ELSE " {spinner} "
    IN with_template(
           new_with_pkey_and_message(
               StatusCheck_name(sc),
               "[" \o short_status_string_with_color(sc) \o "]"),
           "{msg}" \o spinner \o "{prefix:.bold.dim}")

HeadRows(r) ==
    << with_prefix(new_header("header"), "#" \o FormatInt(r.number) \o " - " \o r.title),
       with_indent(with_template(new_with_pkey_and_message("url", r.url), "> {msg}"), 4),
       new_section("body"),
       with_message(Pb_new("_body"), r.body) >>

FileRows(r) ==
    IF Len(r.files) = 0 THEN <<>>
    ELSE <<new_section("files")>>
         \o [i \in 1..Len(r.files) |->
                FileRow(r.files[i], MaxPathLen(r.files, 1, 0))]

DetailRows(r) ==
    << new_section("details"),
       new_with_pkey_and_message("state", r.state),
       new_with_pkey_and_message("author", r.author),
       new_with_pkey_and_message("createdAt", r.createdAt),
       new_with_pkey_and_message("updatedAt", r.updatedAt),
       new_with_pkey_and_message("state", r.state),
       new_with_pkey_and_message("sha", PrInfo_sha(r)),
       new_with_pkey_and_message("url", r.url) >>

CheckRows(r) ==
    IF Len(r.statusCheckRollup) = 0 THEN <<>>
    ELSE <<new_section("checks")>>
         \o [i \in 1..Len(r.statusCheckRollup) |-> CheckRow(r.statusCheckRollup[i])]

\* sha() unwraps the last commit while the row list is still being built,
\* before any row reaches App::pb
BuildPanics(r) == PrInfo_sha(r) = Panic

\* variant: the Checks section is built before the Files section
pb_keys_checks_first(r) == HeadRows(r) \o CheckRows(r) \o DetailRows(r) \o FileRows(r)

pb_keys(r) == HeadRows(r) \o FileRows(r) \o DetailRows(r) \o CheckRows(r)

-----------------------------------------------------------------------------
(* cli.rs: App::pb, the registry *)

DefaultTickChars == "spinner8"

NewProgressBar == [prefix |-> "", message |-> "", style |-> "", finished |-> FALSE]

pb_template(pb_args) ==
    LET template ==
            IF pb_args.template # "" THEN pb_args.template
            ELSE IF pb_args.prefix # ""
                 THEN "{prefix:10.white} " \o Paint("-->", "magenta") \o " {wide_msg}"
                 ELSE "{wide_msg}"
    IN IF pb_args.indent > 0 THEN Repeat(" ", pb_args.indent) \o template ELSE template

pb_style(pb_args) ==
    [template |-> pb_template(pb_args),
     tick_chars |-> IF pb_args.tick_chars = "" THEN DefaultTickChars
                    ELSE pb_args.tick_chars]

\* variant: a new row is inserted at the top of the on-screen order
App_pb_prepend(reg, pb_args) ==
    LET k == pb_args.key
        fresh == k \notin DOMAIN reg.bars
        bars0 == IF fresh THEN reg.bars @@ (k :> NewProgressBar) ELSE reg.bars
        order0 == IF fresh THEN <<k>> \o reg.order ELSE reg.order
        b0 == bars0[k]
        b1 == IF pb_args.message # "" THEN [b0 EXCEPT !.message = pb_args.message] ELSE b0
        b2 == IF pb_args.prefix # "" THEN [b1 EXCEPT !.prefix = pb_args.prefix] ELSE b1
        b3 == [b2 EXCEPT !.style = pb_style(pb_args)]
    IN [bars |-> [bars0 EXCEPT ![k] = b3], order |-> order0]

\* variant: a row is added to the display on every call, known key or not
App_pb_always_add(reg, pb_args) ==
    LET k == pb_args.key
        fresh == k \notin DOMAIN reg.bars
        bars0 == IF fresh THEN reg.bars @@ (k :> NewProgressBar) ELSE reg.bars
        order0 == Append(reg.order, k)
        b0 == bars0[k]
        b1 == IF pb_args.message # "" THEN [b0 EXCEPT !.message = pb_args.message] ELSE b0
        b2 == IF pb_args.prefix # "" THEN [b1 EXCEPT !.prefix = pb_args.prefix] ELSE b1
        b3 == [b2 EXCEPT !.style = pb_style(pb_args)]
    IN [bars |-> [bars0 EXCEPT ![k] = b3], order |-> order0]

\* reg = [bars, order]; the registry after App::pb(pb_args)
App_pb(reg, pb_args) ==
    LET k == pb_args.key
        fresh == k \notin DOMAIN reg.bars
        bars0 == IF fresh THEN reg.bars @@ (k :> NewProgressBar) ELSE reg.bars
        order0 == IF fresh THEN Append(reg.order, k) ELSE reg.order
        b0 == bars0[k]
        b1 == IF pb_args.message # "" THEN [b0 EXCEPT !.message = pb_args.message] ELSE b0
        b2 == IF pb_args.prefix # "" THEN [b1 EXCEPT !.prefix = pb_args.prefix] ELSE b1
        b3 == [b2 EXCEPT !.style = pb_style(pb_args)]
    IN [bars |-> [bars0 EXCEPT ![k] = b3], order |-> order0]

\* the rows of a frame through App::pb, one after the other (each intermediate
\* registry is bound as a value before the next row is applied)
RECURSIVE RenderFrom(_, _, _)
RenderFrom(reg, rows, i) ==
    IF i > Len(rows) THEN reg
    ELSE CHOOSE out \in {RenderFrom(r, rows, i + 1) : r \in {App_pb(reg, rows[i])}} : TRUE

\* get_progress_bars: every row of the frame through App::pb, in order
get_progress_bars(reg, r) == RenderFrom(reg, pb_keys(r), 1)

\* the final frame: pb.finish() on every bar the frame returned
Finish(reg, r) ==
    LET keys == {pb_keys(r)[i].key : i \in 1..Len(pb_keys(r))}
    IN [reg EXCEPT !.bars = [k \in DOMAIN reg.bars |->
                                IF k \in keys THEN [reg.bars[k] EXCEPT !.finished = TRUE]
                                ELSE reg.bars[k]]]

-----------------------------------------------------------------------------
(* The environment: what `gh pr list` can answer *)

Commit(oid) == [oid |-> oid]

File(path, additions, deletions) ==
    [path |-> path, additions |-> additions, deletions |-> deletions]

Snapshot(checks, commits, files, body) ==
    [checks |-> checks, commits |-> commits, files |-> files, body |-> body]

\* the answers of the PR host during a watched run
SchedCheckLists ==
    { <<>>,
      <<CheckRun("ci", "IN_PROGRESS", None)>>,
      <<CheckRun("ci", "COMPLETED", "SUCCESS")>>,
      <<CheckRun("ci", "COMPLETED", "SUCCESS"), StatusContext("lint", "PENDING")>>,
      <<CheckRun("ci", "COMPLETED", "FAILURE"), StatusContext("lint", "SUCCESS")>> }

SchedSnapshots ==
    { Snapshot(cs, cm, <<File("a.go", 3, 1)>>, "text") :
        cs \in SchedCheckLists, cm \in {<<>>, <<Commit("abc123")>>} }

SnapshotComplete(s) == \A i \in 1..Len(s.checks) : StatusCheck_is_complete(s.checks[i])

Answers == IF settled THEN {s \in SchedSnapshots : SnapshotComplete(s)} ELSE SchedSnapshots

\* PrInfo::get on a parsed answer: the record, stamped with SystemTime::now()
PrInfo_get(s, now) == PrInfo(s.checks, s.commits, s.files, s.body, now)

-----------------------------------------------------------------------------
(* cli.rs: App::run_loop, the tick thread *)

Running == exit = "running"

Reg == [bars |-> bars, order |-> order]

PanicNoPrInfo == "panicked: must have pr info"
PanicPoisoned == "panicked: PoisonError"
PanicNoCommit == "panicked: unwrap on None"

\* lines 223-225: PrInfo::get(..) answered with one parsable record
InitialFetchOk(s) ==
    /\ Running /\ pc = "start"
    /\ record' = PrInfo_get(s, clock)
    /\ fetchedAt' = clock
    /\ pc' = "check"
    /\ UNCHANGED <<exit, holder, poisoned, pending, bars, order, clock, settled, finalFrames>>

\* variant: a failed initial fetch is ignored and the loop is entered
InitialFetchFail_ignored ==
    /\ Running /\ pc = "start"
    /\ pc' = "check"
    /\ fetchedAt' = clock
    /\ UNCHANGED <<exit, record, holder, poisoned, pending, bars, order, clock, settled,
                   finalFrames>>

\* lines 223-225: the command failed, printed nothing or printed no single record:
\* get returns None and expect("must have pr info") panics
InitialFetchFail ==
    /\ Running /\ pc = "start"
    /\ exit' = PanicNoPrInfo
    /\ fetchedAt' = clock
    /\ UNCHANGED <<pc, record, holder, poisoned, pending, bars, order, clock, settled,
                   finalFrames>>

\* variant: the first tick renders a frame before the completion test can leave the loop
CheckComplete_always_render ==
    /\ Running /\ pc = "check" /\ holder = "none"
    /\ IF poisoned THEN exit' = PanicPoisoned /\ pc' = pc
       ELSE /\ exit' = exit
            /\ pc' = IF PrInfo_is_complete(record) /\ order # <<>> THEN "final" ELSE "render"
    /\ UNCHANGED <<record, holder, poisoned, pending, bars, order, clock, settled,
                   fetchedAt, finalFrames>>

\* line 229: pr_info.lock().unwrap().is_complete(); the guard is dropped with the condition
CheckComplete ==
    /\ Running /\ pc = "check" /\ holder = "none"
    /\ IF poisoned THEN exit' = PanicPoisoned /\ pc' = pc
       ELSE /\ exit' = exit
            /\ pc' = IF PrInfo_is_complete(record) THEN "final" ELSE "render"
    /\ UNCHANGED <<record, holder, poisoned, pending, bars, order, clock, settled,
                   fetchedAt, finalFrames>>

\* line 233: the guard taken for the argument of get_progress_bars lives to the end of
\* the statement
RenderLock ==
    /\ Running /\ pc = "render" /\ holder = "none"
    /\ IF poisoned THEN exit' = PanicPoisoned /\ pc' = pc /\ holder' = holder
       ELSE exit' = exit /\ pc' = "rendering" /\ holder' = "main"
    /\ UNCHANGED <<record, poisoned, pending, bars, order, clock, settled, fetchedAt,
                   finalFrames>>

\* lines 233-237: build the rows, pass each through App::pb, inc every bar, drop the guard
RenderRows ==
    /\ Running /\ pc = "rendering" /\ holder = "main"
    /\ IF BuildPanics(record)
       THEN /\ exit' = PanicNoCommit /\ poisoned' = TRUE /\ pc' = pc
            /\ UNCHANGED <<bars, order>>
       ELSE /\ \E reg \in {get_progress_bars(Reg, record)} :
                    bars' = reg.bars /\ order' = reg.order
            /\ pc' = "spawn"
            /\ UNCHANGED <<exit, poisoned>>
    /\ holder' = "none"
    /\ UNCHANGED <<record, pending, clock, settled, fetchedAt, finalFrames>>

\* lines 239-241: tokio::spawn of a task that will lock the record and call update()
Spawn ==
    /\ Running /\ pc = "spawn"
    /\ pending < MaxPending
    /\ pending' = pending + 1
    /\ pc' = "sleep"
    /\ UNCHANGED <<exit, record, holder, poisoned, bars, order, clock, settled, fetchedAt,
                   finalFrames>>

\* line 243: sleep(75 ms), then the next iteration
Sleep ==
    /\ Running /\ pc = "sleep"
    /\ pc' = "check"
    /\ UNCHANGED <<exit, record, holder, poisoned, pending, bars, order, clock, settled,
                   fetchedAt, finalFrames>>

\* line 246: the guard for the final frame
FinalLock ==
    /\ Running /\ pc = "final" /\ holder = "none"
    /\ IF poisoned THEN exit' = PanicPoisoned /\ pc' = pc /\ holder' = holder
       ELSE exit' = exit /\ pc' = "finishing" /\ holder' = "main"
    /\ UNCHANGED <<record, poisoned, pending, bars, order, clock, settled, fetchedAt,
                   finalFrames>>

\* lines 246-250 and 260-263: the final frame, finish() on its bars, return Ok(())
FinalRows ==
    /\ Running /\ pc = "finishing" /\ holder = "main"
    /\ IF BuildPanics(record)
       THEN /\ exit' = PanicNoCommit /\ poisoned' = TRUE /\ pc' = pc
            /\ UNCHANGED <<bars, order, finalFrames>>
       ELSE /\ \E reg \in {get_progress_bars(Reg, record)} :
                    bars' = Finish(reg, record).bars /\ order' = reg.order
            /\ finalFrames' = finalFrames + 1
            /\ pc' = "done"
            /\ exit' = "success"
            /\ UNCHANGED poisoned
    /\ holder' = "none"
    /\ UNCHANGED <<record, pending, clock, settled, fetchedAt>>

MainStep ==
    \/ \E s \in Answers : InitialFetchOk(s)
    \/ InitialFetchFail
    \/ CheckComplete
    \/ RenderLock
    \/ RenderRows
    \/ Spawn
    \/ Sleep
    \/ FinalLock
    \/ FinalRows

-----------------------------------------------------------------------------
(* cli.rs lines 239-241 and prinfo.rs PrInfo::update: a refresh task *)

\* variant: the task does not take the lock before it tests and fetches
TaskStart_no_lock ==
    /\ Running /\ pending > 0
    /\ pending' = pending - 1
    /\ IF poisoned THEN UNCHANGED <<holder, fetchedAt>>
       ELSE IF update_is_due(clock, record.createdAt__)
            THEN holder' = "task" /\ fetchedAt' = clock
            ELSE UNCHANGED <<holder, fetchedAt>>
    /\ UNCHANGED <<pc, exit, record, poisoned, bars, order, clock, settled, finalFrames>>

\* the task runs: pr_info.lock().unwrap(), then the test of update(); below the
\* interval it returns at once, otherwise it starts the external command, guard held
TaskStart ==
    /\ Running /\ pending > 0 /\ holder = "none"
    /\ pending' = pending - 1
    /\ IF poisoned THEN UNCHANGED <<holder, fetchedAt>>
       ELSE IF update_is_due(clock, record.createdAt__)
            THEN holder' = "task" /\ fetchedAt' = clock
            ELSE UNCHANGED <<holder, fetchedAt>>
    /\ UNCHANGED <<pc, exit, record, poisoned, bars, order, clock, settled, finalFrames>>

\* the command answered: pr_info.clone_into(self) replaces the whole record, the
\* guard is dropped when the task ends
TaskFetchOk(s) ==
    /\ Running /\ holder = "task"
    /\ record' = PrInfo_get(s, clock)
    /\ holder' = "none"
    /\ UNCHANGED <<pc, exit, poisoned, pending, bars, order, clock, settled, fetchedAt,
                   finalFrames>>

\* get returned None: expect("must have new info") panics inside the task with the
\* guard held, which poisons the mutex
TaskFetchFail ==
    /\ Running /\ holder = "task"
    /\ poisoned' = TRUE
    /\ holder' = "none"
    /\ UNCHANGED <<pc, exit, record, pending, bars, order, clock, settled, fetchedAt,
                   finalFrames>>

TaskStep ==
    \/ TaskStart
    \/ \E s \in Answers : TaskFetchOk(s)
    \/ TaskFetchFail

-----------------------------------------------------------------------------
(* The environment: time and the PR host *)

\* the clock is observed just below and at the refetch interval
ElapseSteps == {MinRefetchSecs * ClockHz - 1, MinRefetchSecs * ClockHz}

Elapse(d) ==
    /\ Running
    /\ clock + d <= MaxClock
    /\ clock' = clock + d
    /\ UNCHANGED <<pc, exit, record, holder, poisoned, pending, bars, order, settled,
                   fetchedAt, finalFrames>>

Settle ==
    /\ Running /\ ~settled
    /\ settled' = TRUE
    /\ UNCHANGED <<pc, exit, record, holder, poisoned, pending, bars, order, clock,
                   fetchedAt, finalFrames>>

EnvStep == \E d \in ElapseSteps : Elapse(d)

-----------------------------------------------------------------------------
(* The watched run *)

Init ==
    /\ pc = "start"
    /\ exit = "running"
    /\ record = NoRecord
    /\ holder = "none"
    /\ poisoned = FALSE
    /\ pending = 0
    /\ bars = <<>>
    /\ order = <<>>
    /\ clock = 0
    /\ settled = FALSE
    /\ fetchedAt = -1
    /\ finalFrames = 0

Next == MainStep \/ TaskStep \/ EnvStep

Spec == Init /\ [][Next]_vars

-----------------------------------------------------------------------------
(* One pass of the loop body over every kind of record: the predicates and *)
(* the row builder applied to each input                                   *)

\* the values mixed in lists longer than one
MixedChecks ==
    { CheckRun("c1", "IN_PROGRESS", None), CheckRun("c1", "COMPLETED", "SUCCESS"),
      StatusContext("c2", "PENDING"), StatusContext("c2", "SUCCESS") }

PureCheckLists ==
    {<<>>} \cup {<<c>> : c \in StatusCheck("c1")}
           \cup UNION {[1..n -> MixedChecks] : n \in 2..MaxChecks}

PureSnapshots ==
    { Snapshot(cs, cm, fs, b) :
        cs \in PureCheckLists,
        cm \in {<<>>, <<Commit("abc123")>>, <<Commit("abc123"), Commit("def456")>>},
        fs \in {<<>>, <<File("x.go", 3, 1), File("longer/path.go", 10, 0)>>},
        b \in {"", "text"} }

InitPure ==
    /\ pc = "check"
    /\ exit = "running"
    /\ record \in {PrInfo_get(s, 0) : s \in PureSnapshots}
    /\ holder = "none"
    /\ poisoned = FALSE
    /\ pending = 0
    /\ bars = <<>>
    /\ order = <<>>
    /\ clock = 0
    /\ settled = FALSE
    /\ fetchedAt = 0
    /\ finalFrames = 0

NextPure == CheckComplete \/ RenderLock \/ RenderRows \/ FinalLock \/ FinalRows

PureSpec == InitPure /\ [][NextPure]_vars

-----------------------------------------------------------------------------
(* The watched run under fair scheduling, with time that never stops *)

\* a long time passes (at least MaxClock units): every earlier instant is older than
\* anything the program compares, and the epoch is moved so that now = MaxClock
\* (the program reads only differences of times)
EpochShift ==
    /\ Running
    /\ clock' = MaxClock
    /\ record' = IF record.present THEN [record EXCEPT !.createdAt__ = 0] ELSE record
    /\ fetchedAt' = IF fetchedAt < 0 THEN fetchedAt ELSE 0
    /\ UNCHANGED <<pc, exit, holder, poisoned, pending, bars, order, settled, finalFrames>>

TimeStep == (\E d \in ElapseSteps : Elapse(d)) \/ EpochShift

\* the tick thread, in a run whose initial fetch succeeds
MainOk ==
    \/ \E s \in Answers : InitialFetchOk(s)
    \/ CheckComplete
    \/ RenderLock
    \/ RenderRows
    \/ Spawn
    \/ Sleep
    \/ FinalLock
    \/ FinalRows

\* the refresh tasks, in a run whose every refresh fetch succeeds
TaskOk == TaskStart \/ \E s \in Answers : TaskFetchOk(s)

NextFair == MainOk \/ TaskOk \/ TimeStep \/ Settle

\* the tick thread is an OS thread of its own; the runtime runs every spawned task;
\* the external command answers in finite time; time advances
FairSpec ==
    /\ Init /\ [][NextFair]_vars
    /\ WF_vars(MainOk)
    /\ WF_vars(TaskOk)
    /\ WF_vars(TimeStep)

-----------------------------------------------------------------------------
(* The watched run over a pull request whose files, checks and body change *)
(* from one refresh to the next                                           *)

FileA == File("a.go", 3, 1)

FileB == File("bb.go", 10, 0)

OneCommit == <<Commit("abc123")>>

\* the answers of the PR host: file and check lists that grow, shrink and change
\* order, a body that becomes empty, checks that turn terminal, a PR without commits
FrameSnapshots ==
    { Snapshot(<<CheckRun("ci", "IN_PROGRESS", None)>>, OneCommit, <<>>, "text"),
      Snapshot(<<CheckRun("ci", "IN_PROGRESS", None)>>, OneCommit, <<FileA, FileB>>, "text"),
      Snapshot(<<CheckRun("ci", "COMPLETED", "SUCCESS")>>, OneCommit, <<FileA, FileB>>, "text"),
      Snapshot(<<CheckRun("ci", "COMPLETED", "SUCCESS"), StatusContext("lint", "PENDING")>>,
               OneCommit, <<FileA>>, ""),
      Snapshot(<<CheckRun("ci", "COMPLETED", "SUCCESS"), StatusContext("lint", "SUCCESS")>>,
               OneCommit, <<FileA>>, ""),
      Snapshot(<<StatusContext("lint", "PENDING"), CheckRun("ci", "IN_PROGRESS", None)>>,
               OneCommit, <<FileB, FileA>>, "text"),
      Snapshot(<<>>, OneCommit, <<>>, "text"),
      Snapshot(<<CheckRun("ci", "IN_PROGRESS", None)>>, <<>>, <<FileA>>, "text") }

\* the refetch interval passes
FrameElapse == Elapse(MinRefetchSecs * ClockHz)

NextFrame ==
    \/ \E s \in FrameSnapshots : InitialFetchOk(s)
    \/ CheckComplete
    \/ RenderLock
    \/ RenderRows
    \/ Spawn
    \/ Sleep
    \/ FinalLock
    \/ FinalRows
    \/ TaskStart
    \/ \E s \in FrameSnapshots : TaskFetchOk(s)
    \/ FrameElapse

FrameSpec == Init /\ [][NextFrame]_vars

-----------------------------------------------------------------------------
(* Properties *)

Checks == record.statusCheckRollup

AllTerminal == \A i \in 1..Len(Checks) : StatusCheck_is_complete(Checks[i])

LeftLoop == pc \in {"final", "finishing", "done"}

InLoopBody == pc \in {"render", "rendering", "spawn", "sleep"}

Interval == MinRefetchSecs * ClockHz

\* C1: the completion test of a tick leaves the loop exactly when every check of the
\* record is terminal: it leaves it for an empty list and for a list of terminal
\* checks only, and enters the loop body as soon as one check is not terminal.
C1_IsCompleteIffAllTerminal ==
    /\ LeftLoop => AllTerminal
    /\ InLoopBody => ~AllTerminal

C1_Witness == pc = "final" /\ Checks = <<>>

ClaimedTerminal(c) ==
    \/ c.typename = "CheckRun" /\ c.status = "COMPLETED"
    \/ c.typename = "StatusContext" /\ c.state \in {"SUCCESS", "FAILURE", "ERROR"}

\* C2: a CheckRun is terminal iff its status is COMPLETED, whatever its conclusion; a
\* StatusContext is terminal iff its state is SUCCESS, FAILURE or ERROR; and the loop
\* treats a record with a single check accordingly.
C2_TerminalByVariant ==
    /\ \A i \in 1..Len(Checks) : StatusCheck_is_complete(Checks[i]) <=> ClaimedTerminal(Checks[i])
    /\ Len(Checks) = 1 /\ LeftLoop => ClaimedTerminal(Checks[1])
    /\ Len(Checks) = 1 /\ InLoopBody => ~ClaimedTerminal(Checks[1])

C2_Witness == pc = "final" /\ Checks = <<StatusContext("c1", "ERROR")>>

\* C3: once a tick has observed completion the scheduler only renders the final frame
\* and stops: no panic, no further tick, no further task spawned, and at the end exactly
\* one final frame and success.
C3_CompletedStops ==
    /\ [](pc = "done" => finalFrames = 1 /\ exit = "success")
    /\ [][LeftLoop => /\ pc' \in {"final", "finishing", "done"}
                      /\ exit' \in {"running", "success"}
                      /\ pending' <= pending]_vars

C3_Witness == pc = "done" /\ exit = "success" /\ finalFrames = 1

\* C4: in a run whose fetches all succeed and whose tasks are scheduled fairly, once
\* the PR host reports only records whose checks are all terminal the scheduler
\* eventually reaches Completed.
C4_EventuallyCompleted == settled ~> (exit = "success")

\* C5: a failed refresh is not fatal: it never ends the run.
C5_RefreshFailureNotFatal == exit # PanicPoisoned

C5_Witness == poisoned /\ exit = "running" /\ pc = "sleep"

\* C6: a failed initial fetch aborts the run at once: no record, no row in the
\* registry, no frame, no tick, no refresh task; and the loop is only ever entered
\* with a fetched record.
C6_InitialFetchFatal ==
    /\ exit = PanicNoPrInfo =>
          /\ pc = "start" /\ ~record.present
          /\ order = <<>> /\ DOMAIN bars = {}
          /\ pending = 0 /\ holder = "none" /\ finalFrames = 0
    /\ pc = "start" /\ fetchedAt # -1 => exit = PanicNoPrInfo
    /\ pc # "start" => record.present

C6_Witness == exit = PanicNoPrInfo /\ clock > 0

\* refresh tasks started and not finished
Outstanding == pending + (IF holder = "task" THEN 1 ELSE 0)

\* C7: at most one refresh task is outstanding at any time.
C7_SingleOutstandingRefresh == Outstanding <= 1

C7_Witness == Outstanding = 1 /\ holder = "task"

\* C8: while a refresh is fetching, the tick thread can always take its next step
\* (the step that is only held back by the model's cap on spawned tasks aside).
C8_TicksNeverBlocked ==
    (Running /\ holder = "task" /\ ~(pc = "spawn" /\ pending = MaxPending))
        => ENABLED MainStep

C8_Witness == holder = "task" /\ pc = "sleep"

\* C9: a refresh task that runs less than the interval after the record's lastFetched
\* fetches nothing and leaves the record, lastFetched included, as it was; one that
\* runs at or after the interval starts the external fetch, once.
C9_RefreshGating ==
    [][/\ (pending' = pending - 1 /\ ~poisoned) =>
             IF clock - record.createdAt__ < Interval
             THEN record' = record /\ holder' = "none" /\ fetchedAt' = fetchedAt
             ELSE record' = record /\ holder' = "task" /\ fetchedAt' = clock
       /\ holder = "task" => fetchedAt' = fetchedAt]_vars

C9_Witness ==
    holder = "task" /\ fetchedAt = clock /\ clock - record.createdAt__ = Interval

\* C10: lastFetched never decreases, and an external fetch is invoked no earlier than
\* one interval after the previous one.
C10_FetchesSpaced ==
    [][/\ (record.present /\ record'.present) =>
             record'.createdAt__ >= record.createdAt__
       /\ (fetchedAt # -1 /\ fetchedAt' # fetchedAt) =>
             fetchedAt' - fetchedAt >= Interval]_vars

C10_Witness ==
    /\ holder = "none" /\ order # <<>>
    /\ record.createdAt__ >= 2 * Interval /\ fetchedAt >= 2 * Interval

-----------------------------------------------------------------------------
(* Properties of the row builder and of the registry *)

\* the step that writes the rows of a loop frame, resp. of the final frame
LoopFrameStep == pc = "rendering" /\ pc' = "spawn"

FinalFrameStep == pc = "finishing" /\ pc' = "done"

FrameStep == LoopFrameStep \/ FinalFrameStep

\* the keys of the rows the builder makes for a record, in order
RowKeys(r) == [i \in 1..Len(pb_keys(r)) |-> pb_keys(r)[i].key]

\* position of a key on the screen (0 when it has no row)
PosOf(ord, k) == IF \E i \in 1..Len(ord) : ord[i] = k
                 THEN CHOOSE i \in 1..Len(ord) : ord[i] = k
                 ELSE 0

\* C11: the registry is append-only: in every step, whatever the frame's file and
\* check lists, every key that has a row keeps it, the on-screen order only grows at
\* its end (rows keep their positions, so their relative order), and every new key
\* is placed after all the rows that existed; each key has exactly one position.
C11_AppendOnly ==
    /\ [](/\ {order[i] : i \in 1..Len(order)} = DOMAIN bars
          /\ \A i, j \in 1..Len(order) : order[i] = order[j] => i = j)
    /\ [][/\ DOMAIN bars \subseteq DOMAIN bars'
          /\ Len(order') >= Len(order)
          /\ SubSeq(order', 1, Len(order)) = order
          /\ \A k \in DOMAIN bars' \ DOMAIN bars : PosOf(order', k) > Len(order)]_vars

\* a frame has been rendered whose file and check lists are in the opposite order of
\* the rows created by earlier frames, bb.go having been added after the check rows
C11_Witness ==
    /\ pc = "spawn" /\ record.files = <<FileB, FileA>>
    /\ PosOf(order, "a.go") > 0 /\ PosOf(order, "a.go") < PosOf(order, "bb.go")
    /\ PosOf(order, "ci") > 0 /\ PosOf(order, "ci") < PosOf(order, "lint")
    /\ PosOf(order, "ci") < PosOf(order, "bb.go")

\* the tick thread holds the record and is about to build the rows of a frame
BuildsFrame == pc \in {"rendering", "finishing"} /\ holder = "main"

\* C12: the rows the builder makes for one record have pairwise distinct keys.
C12_DistinctKeys ==
    BuildsFrame =>
        \E keys \in {RowKeys(record)} :
            \A i, j \in 1..Len(keys) : keys[i] = keys[j] => i = j

\* a frame has been rendered: the registry has fewer rows than the frame had RowSpecs
C12_Witness ==
    /\ pc = "spawn" /\ record.files = <<>> /\ Checks = <<StatusContext("c1", "PENDING")>>
    /\ Len(order) < Len(pb_keys(record))

\* the keys of the fixed order the builder is documented to follow
ExpectedKeys(r) ==
    <<"header", "url", "body", "_body">>
    \o (IF Len(r.files) = 0 THEN <<>>
        ELSE <<"files">> \o [i \in 1..Len(r.files) |-> r.files[i].path])
    \o <<"details", "state", "author", "createdAt", "updatedAt", "sha", "url">>
    \o (IF Len(r.statusCheckRollup) = 0 THEN <<>>
        ELSE <<"checks">>
             \o [i \in 1..Len(r.statusCheckRollup) |-> StatusCheck_name(r.statusCheckRollup[i])])

\* C13: the rows built from a record follow, for every record, the fixed order header,
\* url, Body section and body text, Files section and one row per file iff there are
\* files, Details section with state, author, createdAt, updatedAt, sha, url, Checks
\* section and one row per check iff there are checks.
C13_FixedOrder == BuildsFrame => RowKeys(record) = ExpectedKeys(record)

\* a frame built from a record with a commit, without files and without checks
C13_Witness ==
    /\ pc = "done" /\ record.files = <<>> /\ Checks = <<>> /\ Len(record.commits) = 1
    /\ order = <<"header", "url", "body", "_body", "details", "state", "author",
                 "createdAt", "updatedAt", "sha">>

\* C14: rendering is idempotent: once a frame has been rendered, rendering the rows of
\* the same record again leaves the key set, the on-screen order and every row's
\* prefix, message and style (and, after the final frame, its finished mark) as they
\* are.
C14_RenderIdempotent ==
    [][/\ LoopFrameStep =>
             get_progress_bars([bars |-> bars', order |-> order'], record')
                 = [bars |-> bars', order |-> order']
       /\ FinalFrameStep =>
             Finish(get_progress_bars([bars |-> bars', order |-> order'], record'), record')
                 = [bars |-> bars', order |-> order']]_vars

\* a frame rendered onto rows of earlier frames: the record has one check and no
\* lint check, the registry still has the lint row and the bb.go row
C14_Witness ==
    /\ pc = "spawn" /\ Len(Checks) = 1 /\ Len(record.files) < 2
    /\ PosOf(order, "lint") > 0 /\ PosOf(order, "bb.go") > 0

\* the message of a check row for a label
LabelMsg(label, colour) == "[" \o Paint(label, colour) \o "]"

\* a check the PR host reports as successful
IsSuccess(c) ==
    \/ c.typename = "CheckRun" /\ c.status = "COMPLETED" /\ c.conclusion = "SUCCESS"
    \/ c.typename = "StatusContext" /\ c.state = "SUCCESS"

\* the row of check c still shows the label of a non-terminal check
ShowsDots(c) ==
    c.name \in DOMAIN bars /\ bars[c.name].message = LabelMsg(" .. ", "white")

\* C15 (as claimed): a check shown as ' .. ' that a refresh turned successful, CheckRun
\* or StatusContext, shows ' OK ' in the next frame; and when no check of the record
\* is non-terminal any more the completion test leaves the loop.
C15_FlipShowsOk ==
    [][/\ FrameStep =>
             \A i \in 1..Len(Checks) :
                 (IsSuccess(Checks[i]) /\ ShowsDots(Checks[i]))
                     => bars'[Checks[i].name].message = LabelMsg(" OK ", "green")
       /\ (pc = "check" /\ pc' # "check" /\ AllTerminal) => pc' = "final"]_vars

\* C15 (amended): a non-terminal check is shown as ' .. '; once a refresh turned it
\* successful the next frame shows ' OK ' for a CheckRun and 'Pass' for a
\* StatusContext; and when no check of the record is non-terminal any more the
\* completion test leaves the loop.
C15_FlipShowsOkOrPass ==
    [][/\ FrameStep =>
             \A i \in 1..Len(Checks) :
                 /\ ~StatusCheck_is_complete(Checks[i])
                        => bars'[Checks[i].name].message = LabelMsg(" .. ", "white")
                 /\ (IsSuccess(Checks[i]) /\ ShowsDots(Checks[i])) =>
                        bars'[Checks[i].name].message =
                            IF Checks[i].typename = "CheckRun"
                            THEN LabelMsg(" OK ", "green")
                            ELSE LabelMsg("Pass", "white")
       /\ (pc = "check" /\ pc' # "check" /\ AllTerminal) => pc' = "final"]_vars

\* a refresh turned the lint context, which the last frame shows as ' .. ', successful;
\* it was the only non-terminal check, the completion test has left the loop and the
\* final frame is being rendered
C15_Witness ==
    /\ pc = "finishing" /\ holder = "main"
    /\ Checks = <<CheckRun("ci", "COMPLETED", "SUCCESS"), StatusContext("lint", "SUCCESS")>>
    /\ ShowsDots(Checks[2])
    /\ bars["ci"].message = LabelMsg(" OK ", "green")

\* C16: the tick thread never writes rows while it holds the record's mutex: every
\* step that changes a row or adds one is taken with the lock released (so that
\* rendering never delays a refresh task that waits for the lock).
C16_RenderWithoutLock ==
    [][(bars' # bars \/ order' # order) => holder # "main"]_vars

\* a spawned refresh task waits for the lock that the tick thread holds for a frame
C16_Witness == pc = "rendering" /\ holder = "main" /\ pending > 0 /\ order # <<>>

LastForKey(rows, i) == \A j \in (i + 1)..Len(rows) : rows[j].key # rows[i].key

\* C18: after a frame every row whose key is in the frame shows exactly the prefix,
\* the message and the style of that key's RowSpec, the empty string included: no
\* text of an earlier frame stays on a row of the current frame.
C18_RowsShowFrame ==
    [][FrameStep =>
          \E rows \in {pb_keys(record)} :
              \A i \in 1..Len(rows) :
                  LastForKey(rows, i) =>
                      /\ bars'[rows[i].key].prefix = rows[i].prefix
                      /\ bars'[rows[i].key].message = rows[i].message
                      /\ bars'[rows[i].key].style = pb_style(rows[i])]_vars

\* a refresh emptied the body of the PR; the frame that shows the text is on screen
\* and the frame of the new record is being rendered
C18_Witness ==
    /\ pc = "rendering" /\ holder = "main" /\ record.body = ""
    /\ "_body" \in DOMAIN bars /\ bars["_body"].message = "text"

\* the keys of the file rows and of the check rows of the watched pull request
FileKeys == UNION {{s.files[i].path : i \in 1..Len(s.files)} : s \in FrameSnapshots}

CheckKeys ==
    UNION {{StatusCheck_name(s.checks[i]) : i \in 1..Len(s.checks)} : s \in FrameSnapshots}

\* C19 (as claimed): whatever the refreshes did to the file and check lists, on the
\* screen every file row is above every check row.
C19_FilesAboveChecks ==
    \A i, j \in 1..Len(order) :
        (order[i] \in CheckKeys /\ order[j] \in FileKeys) => j < i

\* C19 (amended): the header/summary rows are first; a check row is created below
\* every file row that exists or is created by the same frame, so no file row is below
\* a check row created by the same or a later frame (a file first reported by a later
\* refresh is appended at the end, below the check rows that exist).
C19_ChecksCreatedBelowFiles ==
    /\ [](order # <<>> => SubSeq(order, 1, 4) = <<"header", "url", "body", "_body">>)
    /\ [][\A i, j \in 1..Len(order') :
              (i > Len(order) /\ order'[i] \in CheckKeys /\ order'[j] \in FileKeys)
                  => j < i]_vars

\* the first frame created the a.go row above the ci row; a refresh added bb.go, whose
\* row was appended below the check rows
C19_Witness ==
    /\ PosOf(order, "a.go") > 0 /\ PosOf(order, "a.go") < PosOf(order, "ci")
    /\ PosOf(order, "ci") < PosOf(order, "bb.go")
    /\ order[Len(order)] = "bb.go"

\* C20: building the rows never aborts the run because of the commits list, and the
\* sha row of a rendered frame carries the id of the last commit, resp. the empty
\* string for a record without commits.
C20_ShaRowNeverAborts ==
    /\ exit # PanicNoCommit
    /\ pc \in {"spawn", "done"} =>
          bars["sha"].message =
              IF Len(record.commits) = 0 THEN ""
              ELSE record.commits[Len(record.commits)].oid

\* the frame of a record with two commits: the sha row carries the id of the last
C20_Witness ==
    /\ pc = "spawn" /\ Len(record.commits) = 2 /\ bars["sha"].message = "def456"

\* the colour of a label on a check row
LabelColour(label) ==
    CASE label = " OK " -> "green"
      [] label = "Fail" -> "red"
      [] label = "Skip" -> "yellow"
      [] OTHER -> "white"

\* the template of a check row with, resp. without, the animated marker
AnimatedCheckTemplate == "{msg} {spinner} {prefix:.bold.dim}"

StaticCheckTemplate == "{msg} {prefix:.bold.dim}"

\* check i is the last check of the record with its name
LastCheckForName(i) == \A j \in (i + 1)..Len(Checks) : Checks[j].name # Checks[i].name

\* C21: in every frame the RowSpec of each check has the check's name as key and
\* prefix, the message '[shortLabel]' and the animated marker iff the check is not
\* terminal; and after the frame the row of that key shows exactly this, so that a
\* check that a refresh turned terminal is shown without spinner by the next frame.
C21_CheckRows ==
    /\ [](BuildsFrame =>
            \E rows \in {CheckRows(record)} :
                \A i \in 1..Len(Checks) :
                    /\ rows[i + 1].key = Checks[i].name
                    /\ rows[i + 1].prefix = Checks[i].name
                    /\ rows[i + 1].message =
                           LabelMsg(short_status_str(Checks[i]),
                                    LabelColour(short_status_str(Checks[i])))
                    /\ rows[i + 1].template =
                           IF StatusCheck_is_complete(Checks[i]) THEN StaticCheckTemplate
                           ELSE AnimatedCheckTemplate)
    /\ [][FrameStep =>
             \A i \in 1..Len(Checks) :
                 LastCheckForName(i) =>
                     /\ bars'[Checks[i].name].prefix = Checks[i].name
                     /\ bars'[Checks[i].name].message =
                            LabelMsg(short_status_str(Checks[i]),
                                     LabelColour(short_status_str(Checks[i])))
                     /\ bars'[Checks[i].name].style.template =
                            IF StatusCheck_is_complete(Checks[i]) THEN StaticCheckTemplate
                            ELSE AnimatedCheckTemplate]_vars

\* a refresh turned the ci check, which the last frame shows with the spinner,
\* terminal while lint is still pending; the next frame is being rendered
C21_Witness ==
    /\ pc = "rendering" /\ holder = "main"
    /\ Checks = <<CheckRun("ci", "COMPLETED", "SUCCESS"), StatusContext("lint", "PENDING")>>
    /\ "ci" \in DOMAIN bars /\ bars["ci"].style.template = AnimatedCheckTemplate

ShortLabels == {" OK ", "Pass", "Fail", "Skip", " .. "}

\* C22: computing the short label never aborts: for every check of every record the
\* label is one of ' OK ', 'Pass', 'Fail', 'Skip', ' .. ' (never the panic arm), it
\* is ' .. ' whenever the check is not terminal, and the message a rendered frame
\* shows on the check's row is made of such a label.
C22_LabelNeverAborts ==
    /\ \A i \in 1..Len(Checks) :
           /\ short_status_str(Checks[i]) \in ShortLabels
           /\ ~StatusCheck_is_complete(Checks[i]) => short_status_str(Checks[i]) = " .. "
    /\ pc \in {"spawn", "done"} =>
           \A i \in 1..Len(Checks) :
               bars[Checks[i].name].message \in
                   {LabelMsg(l, LabelColour(l)) : l \in ShortLabels}

\* the frame of a record whose only check is a StatusContext in state EXPECTED, a
\* state that the label match has no arm for: the row shows ' .. '
C22_Witness ==
    /\ pc = "spawn" /\ Checks = <<StatusContext("c1", "EXPECTED")>>
    /\ bars["c1"].message = LabelMsg(" .. ", "white")

\* C23: all accesses to the record are mutually exclusive: a refresh task starts its
\* test and fetch, and the tick thread starts a frame, only when nobody holds the
\* lock; the record is replaced only by the one task that holds it; and the tick
\* thread reads the record (completion test, loop frame, final frame) only while no
\* task is fetching or replacing it.
C23_MutualExclusion ==
    /\ [][(holder' # holder /\ holder' # "none") => holder = "none"]_vars
    /\ [][(record' # record /\ pc # "start") => (holder = "task" /\ holder' = "none")]_vars
    /\ [][(pc' # pc /\ pc \in {"check", "rendering", "finishing"}) => holder # "task"]_vars
    /\ [][(bars' # bars \/ order' # order) => holder = "main"]_vars

\* one refresh task is fetching with the lock held while another spawned task and the
\* tick thread, at its completion test, wait for the lock
C23_Witness == holder = "task" /\ pending > 0 /\ pc = "check" /\ order # <<>>

\* C24: the record that the final frame renders satisfies the completion predicate:
\* when the run has stopped, the frame on the screen is that of a record without a
\* non-terminal check, also when refresh tasks were still pending.
C24_FinalFrameComplete ==
    /\ pc = "finishing" => PrInfo_is_complete(record)
    /\ pc = "done" => PrInfo_is_complete(record)

\* the run has stopped after a final frame of a complete record with checks, rendered
\* while a spawned refresh task had not run yet
C24_Witness ==
    /\ pc = "done" /\ exit = "success" /\ pending > 0
    /\ Len(Checks) > 0 /\ AllTerminal

====
